---- MODULE Spec2Model ----
(***************************************************************************)
(* A model of urxvt-kitty (src/main.go): a one-shot converter that reads   *)
(* an Xresources-style colour file, extracts 19 colour assignments with a  *)
(* regular expression, decodes them and prints a KiTTY registry file.      *)
(*                                                                         *)
(* Strings are sequences of one-character strings; Ord gives each          *)
(* character its byte value, so that byte comparisons and byte arithmetic  *)
(* are computed as the Go code computes them.                              *)
(***************************************************************************)
EXTENDS Integers, Sequences, FiniteSets, TLC

VARIABLES
    args,          \* os.Args[1:], a sequence of strings
    fileState,     \* the named file: "ok", "noent" (open fails), "ioerr" (read fails)
    fileText,      \* the named file's content
    pc,            \* position of the run inside main/app
    opened,        \* whether os.Open has been called successfully and not yet closed
    b,             \* bytes.Buffer b
    objects,       \* result of FindAllStringSubmatch
    values,        \* map[string]string values
    iter,          \* the order in which range nameReplacements yields the keys
    idx,           \* number of keys the range loop has already yielded
    notFoundKeys,  \* []string notFoundKeys
    kvals,         \* []colormatch kvals
    err,           \* the error app returned
    stdout,        \* what was written to os.Stdout
    stderr,        \* the messages written to os.Stderr
    exitCode,      \* the process's exit status, -1 while it runs
    hexIn,         \* decoder harness: the string handed to hexToRGB
    hexOut,        \* decoder harness: what hexToRGB gave back
    reIn,          \* extractor harness: the text handed to the pattern
    reOut          \* extractor harness: the submatches found

vars == <<args, fileState, fileText, pc, opened, b, objects, values, iter, idx,
          notFoundKeys, kvals, err, stdout, stderr, exitCode,
          hexIn, hexOut, reIn, reOut>>

-----------------------------------------------------------------------------
(* Characters and bytes *)

\* byte 96, which a string literal of this language cannot hold
Backtick == "<grave>"

AsciiPrintable ==
    <<" ", "!", "\"", "#", "$", "%", "&", "'", "(", ")", "*", "+", ",", "-", ".", "/",
      "0", "1", "2", "3", "4", "5", "6", "7", "8", "9", ":", ";", "<", "=", ">", "?",
      "@", "A", "B", "C", "D", "E", "F", "G", "H", "I", "J", "K", "L", "M", "N", "O",
      "P", "Q", "R", "S", "T", "U", "V", "W", "X", "Y", "Z", "[", "\\", "]", "^", "_",
      Backtick, "a", "b", "c", "d", "e", "f", "g", "h", "i", "j", "k", "l", "m", "n", "o",
      "p", "q", "r", "s", "t", "u", "v", "w", "x", "y", "z", "{", "|", "}", "~">>

NewLine == "\n"

Chars == {AsciiPrintable[i] : i \in 1..Len(AsciiPrintable)} \cup {NewLine}

\* The byte value of a character.
Ord ==
    [c \in Chars |->
        IF c = NewLine THEN 10
        ELSE (CHOOSE i \in 1..Len(AsciiPrintable) : AsciiPrintable[i] = c) + 31]

Byte(n) == n % 256

RECURSIVE Concat(_)
Concat(ss) == IF ss = <<>> THEN <<>> ELSE Head(ss) \o Concat(Tail(ss))

-----------------------------------------------------------------------------
(* hexToRGB, src/main.go:145-178 *)

\* hexToByte without the +10 of the letter digits
hexToByte_NoOffset(c) ==
    LET x == Ord[c] IN
    IF x >= Ord["0"] /\ x <= Ord["9"] THEN [v |-> Byte(x - Ord["0"]), bad |-> FALSE]
    ELSE IF x >= Ord["a"] /\ x <= Ord["f"] THEN [v |-> Byte(x - Ord["a"]), bad |-> FALSE]
    ELSE IF x >= Ord["A"] /\ x <= Ord["F"] THEN [v |-> Byte(x - Ord["A"]), bad |-> FALSE]
    ELSE [v |-> 0, bad |-> TRUE]

\* the closure hexToByte: the nibble, and whether it set err
hexToByte(c) ==
    LET x == Ord[c] IN
    IF x >= Ord["0"] /\ x <= Ord["9"] THEN [v |-> Byte(x - Ord["0"]), bad |-> FALSE]
    ELSE IF x >= Ord["a"] /\ x <= Ord["f"] THEN [v |-> Byte(x - Ord["a"] + 10), bad |-> FALSE]
    ELSE IF x >= Ord["A"] /\ x <= Ord["F"] THEN [v |-> Byte(x - Ord["A"] + 10), bad |-> FALSE]
    ELSE [v |-> 0, bad |-> TRUE]

Opaque == 255

RGBA(r, g, bl) == [R |-> r, G |-> g, B |-> bl, A |-> Opaque]

\* outcome of a call: panicked (index out of range), or (c, err)
HexResult(p, e, c) == [panic |-> p, err |-> e, c |-> c]

hexToRGB(s) ==
    IF Len(s) = 0 THEN HexResult(TRUE, FALSE, RGBA(0, 0, 0))     \* s[0] on an empty string
    ELSE IF s[1] # "#" THEN HexResult(FALSE, TRUE, RGBA(0, 0, 0))
    ELSE IF Len(s) = 7 THEN
        LET h == [i \in 2..7 |-> hexToByte(s[i])] IN
        HexResult(FALSE, \E i \in 2..7 : h[i].bad,
                  RGBA(Byte(Byte(h[2].v * 16) + h[3].v),
                       Byte(Byte(h[4].v * 16) + h[5].v),
                       Byte(Byte(h[6].v * 16) + h[7].v)))
    ELSE IF Len(s) = 4 THEN
        LET h == [i \in 2..4 |-> hexToByte(s[i])] IN
        HexResult(FALSE, \E i \in 2..4 : h[i].bad,
                  RGBA(Byte(h[2].v * 17), Byte(h[3].v * 17), Byte(h[4].v * 17)))
    ELSE HexResult(FALSE, TRUE, RGBA(0, 0, 0))

-----------------------------------------------------------------------------
(* reParseItems, src/main.go:16: star, dot, one or more repetitions of the *)
(* group (color[0-9]{1,2}|foreground|background|cursorColor), a colon, one *)
(* or more spaces, and the group (#[a-fA-F0-9]{6}); matched with Go's      *)
(* leftmost-first (preference-ordered) semantics.                          *)

sColor == <<"c", "o", "l", "o", "r">>
sForeground == <<"f", "o", "r", "e", "g", "r", "o", "u", "n", "d">>
sBackground == <<"b", "a", "c", "k", "g", "r", "o", "u", "n", "d">>
sCursorColor == <<"c", "u", "r", "s", "o", "r", "C", "o", "l", "o", "r">>
sStarDot == <<"*", ".">>

ClassDigit == {"0", "1", "2", "3", "4", "5", "6", "7", "8", "9"}
\* the class with a letter too many
ClassHex_WithG ==
    {"a", "b", "c", "d", "e", "f", "g", "A", "B", "C", "D", "E", "F", "G"} \cup ClassDigit

ClassHex == {"a", "b", "c", "d", "e", "f", "A", "B", "C", "D", "E", "F"} \cup ClassDigit

HexDigits == 6

LitAt(text, i, lit) ==
    /\ i + Len(lit) - 1 <= Len(text)
    /\ \A j \in 1..Len(lit) : text[i + j - 1] = lit[j]

InClass(text, i, class) == i <= Len(text) /\ text[i] \in class

NoMatch == [ok |-> FALSE, end |-> 0, key |-> <<>>, val |-> <<>>]

RECURSIVE SkipSpaces(_, _)
SkipSpaces(text, i) == IF InClass(text, i, {" "}) THEN SkipSpaces(text, i + 1) ELSE i

\* ": +(#[a-fA-F0-9]{6})" at position i; end is the first position after the match
MatchValue(text, i, key) ==
    IF ~(LitAt(text, i, <<":">>) /\ InClass(text, i + 1, {" "})) THEN NoMatch
    ELSE LET h == SkipSpaces(text, i + 1) IN
         IF /\ LitAt(text, h, <<"#">>)
            /\ \A j \in 1..HexDigits : InClass(text, h + j, ClassHex)
         THEN [ok |-> TRUE, end |-> h + HexDigits + 1, key |-> key,
               val |-> SubSeq(text, h, h + HexDigits)]
         ELSE NoMatch

\* the ends (first position after) of one repetition of the group at i, most preferred first
GroupEnds(text, i) ==
    LET c == i + Len(sColor) IN
    (IF LitAt(text, i, sColor) /\ InClass(text, c, ClassDigit) /\ InClass(text, c + 1, ClassDigit)
        THEN <<c + 2>> ELSE <<>>)
    \o (IF LitAt(text, i, sColor) /\ InClass(text, c, ClassDigit) THEN <<c + 1>> ELSE <<>>)
    \o (IF LitAt(text, i, sForeground) THEN <<i + Len(sForeground)>> ELSE <<>>)
    \o (IF LitAt(text, i, sBackground) THEN <<i + Len(sBackground)>> ELSE <<>>)
    \o (IF LitAt(text, i, sCursorColor) THEN <<i + Len(sCursorColor)>> ELSE <<>>)

\* "(...)+" then the value, from position i: each repetition first tries to repeat
\* again (greedy) and only then to go on; group 1 is the last repetition's text
RECURSIVE MatchGroup(_, _)
RECURSIVE TryEnds(_, _, _)
TryEnds(text, i, ends) ==
    IF ends = <<>> THEN NoMatch
    ELSE LET e == Head(ends)
             again == MatchGroup(text, e)
             on == MatchValue(text, e, SubSeq(text, i, e - 1))
         IN IF again.ok THEN again
            ELSE IF on.ok THEN on
            ELSE TryEnds(text, i, Tail(ends))

MatchGroup(text, i) == TryEnds(text, i, GroupEnds(text, i))

MatchAt(text, i) ==
    IF LitAt(text, i, sStarDot) THEN MatchGroup(text, i + Len(sStarDot)) ELSE NoMatch

\* regexp.FindAllStringSubmatch(text, -1): successive non-overlapping leftmost matches,
\* each as <<whole match, group 1, group 2>>
RECURSIVE FindFrom(_, _)
FindFrom(text, i) ==
    IF i > Len(text) THEN <<>>
    ELSE LET m == MatchAt(text, i) IN
         IF m.ok THEN <<(<<SubSeq(text, i, m.end - 1), m.key, m.val>>)>> \o FindFrom(text, m.end)
         ELSE FindFrom(text, i + 1)

FindAllStringSubmatch(text) == FindFrom(text, 1)

-----------------------------------------------------------------------------
(* Formatting helpers of the standard library, as the driver uses them *)

DigitChar == <<"0", "1", "2", "3", "4", "5", "6", "7", "8", "9">>
UpperHexChar == DigitChar \o <<"A", "B", "C", "D", "E", "F">>
LowerHexChar == DigitChar \o <<"a", "b", "c", "d", "e", "f">>

\* fmt's %d of a non-negative integer
RECURSIVE Itoa(_)
Itoa(n) == IF n < 10 THEN <<DigitChar[n + 1]>>
           ELSE Itoa(n \div 10) \o <<DigitChar[(n % 10) + 1]>>

\* strings.Join
RECURSIVE Join(_, _)
Join(elems, sep) ==
    IF elems = <<>> THEN <<>>
    ELSE IF Len(elems) = 1 THEN elems[1]
    ELSE elems[1] \o sep \o Join(Tail(elems), sep)

\* fmt's %q of a string of printable ASCII: quoted, with quote and backslash escaped
RECURSIVE QuoteBody(_)
QuoteBody(s) ==
    IF s = <<>> THEN <<>>
    ELSE (IF Head(s) \in {"\"", "\\"} THEN <<"\\", Head(s)>> ELSE <<Head(s)>>)
         \o QuoteBody(Tail(s))

Quote(s) == <<"\"">> \o QuoteBody(s) \o <<"\"">>

\* url.PathEscape on printable ASCII: letters, digits, "-_.~" and "$&+=:@" stay,
\* every other byte becomes %XX
PathUnescaped ==
    {c \in Chars : \/ (Ord[c] >= Ord["a"] /\ Ord[c] <= Ord["z"])
                   \/ (Ord[c] >= Ord["A"] /\ Ord[c] <= Ord["Z"])
                   \/ (Ord[c] >= Ord["0"] /\ Ord[c] <= Ord["9"])}
    \cup {"-", "_", ".", "~", "$", "&", "+", "=", ":", "@"}

RECURSIVE PathEscape(_)
PathEscape(s) ==
    IF s = <<>> THEN <<>>
    ELSE (IF Head(s) \in PathUnescaped THEN <<Head(s)>>
          ELSE <<"%", UpperHexChar[(Ord[Head(s)] \div 16) + 1],
                 UpperHexChar[(Ord[Head(s)] % 16) + 1]>>)
         \o PathEscape(Tail(s))

\* Go's < on strings: byte-wise lexicographic
RECURSIVE StrLess(_, _)
StrLess(x, y) ==
    IF y = <<>> THEN FALSE
    ELSE IF x = <<>> THEN TRUE
    ELSE IF Ord[Head(x)] # Ord[Head(y)] THEN Ord[Head(x)] < Ord[Head(y)]
    ELSE StrLess(Tail(x), Tail(y))

-----------------------------------------------------------------------------
(* The static tables, src/main.go:18-40 *)

colorPrefix == <<"C", "o", "l", "o", "u", "r">>

Color(n) == sColor \o Itoa(n)

\* the literal of nameReplacements, entry by entry
NameTable ==
    << [key |-> sForeground,  slots |-> <<0, 1>>],
       [key |-> sBackground,  slots |-> <<2, 3>>],
       [key |-> sCursorColor, slots |-> <<4, 5>>],
       [key |-> Color(0),     slots |-> <<6>>],
       [key |-> Color(8),     slots |-> <<7>>],
       [key |-> Color(1),     slots |-> <<8>>],
       [key |-> Color(9),     slots |-> <<9>>],
       [key |-> Color(2),     slots |-> <<10>>],
       [key |-> Color(10),    slots |-> <<11>>],
       [key |-> Color(3),     slots |-> <<12>>],
       [key |-> Color(11),    slots |-> <<13>>],
       [key |-> Color(4),     slots |-> <<14>>],
       [key |-> Color(12),    slots |-> <<15>>],
       [key |-> Color(5),     slots |-> <<16>>],
       [key |-> Color(13),    slots |-> <<17>>],
       [key |-> Color(6),     slots |-> <<18>>],
       [key |-> Color(14),    slots |-> <<19>>],
       [key |-> Color(7),     slots |-> <<20>>],
       [key |-> Color(15),    slots |-> <<21>>] >>

KeyNames == {NameTable[i].key : i \in 1..Len(NameTable)}

nameReplacements ==
    [k \in KeyNames |-> NameTable[CHOOSE i \in 1..Len(NameTable) : NameTable[i].key = k].slots]

\* getRGB with green and blue exchanged
getRGB_Swapped(cm) ==
    Itoa(cm.color.R) \o <<",">> \o Itoa(cm.color.B) \o <<",">> \o Itoa(cm.color.G)

\* colormatch.getRGB, src/main.go:47-49
getRGB(cm) == Itoa(cm.color.R) \o <<",">> \o Itoa(cm.color.G) \o <<",">> \o Itoa(cm.color.B)

-----------------------------------------------------------------------------
(* The rendering of app, src/main.go:126-140 *)

\* sort.Slice(kvals, less) with less comparing names; the names of kvals are
\* distinct, so the sorted order is the same whatever the algorithm
RECURSIVE InsertByName(_, _)
InsertByName(cm, sorted) ==
    IF sorted = <<>> THEN <<cm>>
    ELSE IF StrLess(cm.name, Head(sorted).name) THEN <<cm>> \o sorted
    ELSE <<Head(sorted)>> \o InsertByName(cm, Tail(sorted))

\* the slice left as the loop filled it
SortSlice_Unsorted(s) == s

RECURSIVE SortSlice(_)
SortSlice(s) == IF s = <<>> THEN <<>> ELSE InsertByName(Head(s), SortSlice(Tail(s)))

Banner ==
    <<"W", "i", "n", "d", "o", "w", "s", " ", "R", "e", "g", "i", "s", "t", "r", "y", " ",
      "E", "d", "i", "t", "o", "r", " ", "V", "e", "r", "s", "i", "o", "n", " ", "5", ".",
      "0", "0">>

PathPrefix ==
    <<"[", "H", "K", "E", "Y", "_", "C", "U", "R", "R", "E", "N", "T", "_", "U", "S", "E",
      "R", "\\", "S", "o", "f", "t", "w", "a", "r", "e", "\\", "9", "b", "i", "s", ".",
      "c", "o", "m", "\\", "K", "i", "T", "T", "Y", "\\", "S", "e", "s", "s", "i", "o",
      "n", "s", "\\">>

Header(sname) ==
    Banner \o <<NewLine>> \o <<NewLine>> \o PathPrefix \o PathEscape(sname) \o <<"]", NewLine>>

RowLine(cm) == Quote(cm.name) \o <<"=">> \o Quote(getRGB(cm)) \o <<NewLine>>

RECURSIVE Rows(_)
Rows(s) == IF s = <<>> THEN <<>> ELSE RowLine(Head(s)) \o Rows(Tail(s))

-----------------------------------------------------------------------------
(* The inputs the runs are drawn from *)

MaxArgs == 3        \* command lines carry 0..MaxArgs arguments
MaxMissing == 2     \* input files lack up to MaxMissing consecutive table entries
MaxStart == 1       \* range nameReplacements starts at table entry 0..MaxStart
MaxStride == 2      \* and steps through the table by 1..MaxStride entries

FileName == <<"c", "o", "l", "o", "r", "s">>

SessionNames == {<<>>, <<"M", "y", " ", "S", "e", "s", "s", "i", "o", "n", "/", "1">>}

ExtraArg == <<"x">>

\* the colour a complete file gives table entry i; entry 1 is #1a2b3c
FileColor(i) ==
    IF i = 1 THEN <<"#", "1", "a", "2", "b", "3", "c">>
    ELSE LET hx == IF i % 2 = 0 THEN UpperHexChar ELSE LowerHexChar
             r == (i * 13) % 256
             g == (i * 29 + 7) % 256
             bl == 255 - i * 11
         IN <<"#", hx[(r \div 16) + 1], hx[(r % 16) + 1], hx[(g \div 16) + 1],
              hx[(g % 16) + 1], hx[(bl \div 16) + 1], hx[(bl % 16) + 1]>>

\* the line of a complete file for table entry i: every third with a resource
\* prefix and two spaces
BaseLine(i) ==
    (IF i % 3 = 0 THEN <<"U", "R", "x", "v", "t">> ELSE <<>>)
    \o sStarDot \o NameTable[i].key \o <<":">>
    \o (IF i % 3 = 0 THEN <<" ", " ">> ELSE <<" ">>)
    \o FileColor(i) \o <<NewLine>>

RECURSIVE BaseLines(_, _)
BaseLines(i, missing) ==
    IF i > Len(NameTable) THEN <<>>
    ELSE (IF i \in missing THEN <<>> ELSE BaseLine(i)) \o BaseLines(i + 1, missing)

MissingSets ==
    {{}} \cup {{i \in 1..Len(NameTable) : m <= i /\ i < m + w} :
                 m \in 1..Len(NameTable), w \in 1..MaxMissing}

NoLine == <<>>
DupColor7 == <<"*", ".", "c", "o", "l", "o", "r", "7", ":", " ", "#", "F", "F", "F", "F", "F", "F", NewLine>>
DupForeground == <<"*", ".", "f", "o", "r", "e", "g", "r", "o", "u", "n", "d", ":", " ", " ", " ", "#", "0", "0", "0", "0", "0", "0", NewLine>>
TwoKeys == <<"*", ".", "c", "o", "l", "o", "r", "1", "f", "o", "r", "e", "g", "r", "o", "u", "n", "d", ":", " ", "#", "0", "1", "0", "2", "0", "3", NewLine>>
SevenDigits == <<"*", ".", "c", "o", "l", "o", "r", "3", ":", " ", "#", "1", "2", "3", "4", "5", "6", "7", NewLine>>
ThreeDigits == <<"*", ".", "c", "o", "l", "o", "r", "4", ":", " ", "#", "a", "b", "c", NewLine>>
BadDigit == <<"*", ".", "c", "o", "l", "o", "r", "5", ":", " ", "#", "1", "2", "3", "4", "5", "g", NewLine>>
NoSpace == <<"*", ".", "c", "o", "l", "o", "r", "6", ":", "#", "1", "2", "3", "4", "5", "6", NewLine>>
Color16 == <<"*", ".", "c", "o", "l", "o", "r", "1", "6", ":", " ", "#", "1", "0", "1", "0", "1", "0", NewLine>>
Comment == <<"!", " ", "n", "o", " ", "c", "o", "l", "o", "u", "r", "s", " ", "h", "e", "r", "e", NewLine>>

\* lines put before and after the lines of the table entries
Extras ==
    { [front |-> NoLine, back |-> NoLine],
      [front |-> NoLine, back |-> DupColor7],
      [front |-> DupColor7, back |-> NoLine],
      [front |-> NoLine, back |-> DupForeground],
      [front |-> NoLine, back |-> TwoKeys],
      [front |-> TwoKeys, back |-> NoLine],
      [front |-> NoLine, back |-> SevenDigits],
      [front |-> NoLine, back |-> ThreeDigits],
      [front |-> NoLine, back |-> BadDigit],
      [front |-> NoLine, back |-> NoSpace],
      [front |-> NoLine, back |-> Color16],
      [front |-> Comment, back |-> NoLine] }

ColourFiles ==
    {e.front \o BaseLines(1, m) \o e.back : m \in MissingSets, e \in Extras}

\* files in which the pattern matches nowhere
BlankFiles == {<<>>, Comment, ThreeDigits \o NoSpace \o BadDigit}

Files == ColourFiles \cup BlankFiles

\* the orders range nameReplacements may yield the keys in: Go leaves the order
\* unspecified; the runs take the table from a start of 0..MaxStart, by a stride
\* of 1..MaxStride (the table has a prime number of entries, so each is an order)
IterOrder(start, stride) ==
    [i \in 1..Len(NameTable) |->
        NameTable[((start + (i - 1) * stride) % Len(NameTable)) + 1].key]

IterOrders == {IterOrder(st, sd) : st \in 0..MaxStart, sd \in 1..MaxStride}

-----------------------------------------------------------------------------
(* main and app, src/main.go:51-143 *)

NoErr == [kind |-> "nil", detail |-> <<>>]

Fail(kind, detail) ==
    /\ err' = [kind |-> kind, detail |-> detail]
    /\ pc' = "return"

NoHexResult == HexResult(FALSE, FALSE, RGBA(0, 0, 0))

DriverIdle ==
    /\ opened = FALSE
    /\ b = <<>>
    /\ objects = <<>>
    /\ values = <<>>
    /\ iter = <<>>
    /\ idx = 0
    /\ notFoundKeys = <<>>
    /\ kvals = <<>>
    /\ err = NoErr
    /\ stdout = <<>>
    /\ stderr = <<>>
    /\ exitCode = -1

HarnessIdle ==
    /\ hexIn = <<>>
    /\ hexOut = NoHexResult
    /\ reIn = <<>>
    /\ reOut = <<>>

Init ==
    /\ \E n \in 0..MaxArgs, sname \in SessionNames :
          args = SubSeq(<<FileName, sname>>, 1, IF n < 2 THEN n ELSE 2)
                 \o [i \in 1..(n - 2) |-> ExtraArg]
    /\ fileState \in {"ok", "noent", "ioerr"}
    /\ fileText \in Files
    /\ pc = "args"
    /\ DriverIdle
    /\ HarnessIdle

harness == <<hexIn, hexOut, reIn, reOut>>
inputs == <<args, fileState, fileText>>

\* the argument check letting surplus arguments through
CheckArgs_AtLeastTwo ==
    /\ pc = "args"
    /\ IF Len(args) < 2 THEN Fail("usage", <<>>)
       ELSE pc' = "session" /\ err' = err
    /\ UNCHANGED <<inputs, harness, opened, b, objects, values, iter, idx,
                   notFoundKeys, kvals, stdout, stderr, exitCode>>

\* src/main.go:59-64
CheckArgs ==
    /\ pc = "args"
    /\ IF Len(args) # 2 THEN Fail("usage", <<>>)
       ELSE pc' = "session" /\ err' = err
    /\ UNCHANGED <<inputs, harness, opened, b, objects, values, iter, idx,
                   notFoundKeys, kvals, stdout, stderr, exitCode>>

\* the session name taken as it comes
CheckSession_NoCheck ==
    /\ pc = "session"
    /\ pc' = "open"
    /\ UNCHANGED <<inputs, harness, opened, b, objects, values, iter, idx,
                   notFoundKeys, kvals, err, stdout, stderr, exitCode>>

\* src/main.go:66-70
CheckSession ==
    /\ pc = "session"
    /\ IF args[2] = <<>> THEN Fail("session name is empty", <<>>)
       ELSE pc' = "open" /\ err' = err
    /\ UNCHANGED <<inputs, harness, opened, b, objects, values, iter, idx,
                   notFoundKeys, kvals, stdout, stderr, exitCode>>

\* src/main.go:72-77
OpenFile ==
    /\ pc = "open"
    /\ IF fileState = "noent" THEN Fail("can't open file", args[1]) /\ opened' = opened
       ELSE pc' = "read" /\ err' = err /\ opened' = TRUE
    /\ UNCHANGED <<inputs, harness, b, objects, values, iter, idx,
                   notFoundKeys, kvals, stdout, stderr, exitCode>>

\* src/main.go:79-82
ReadFile ==
    /\ pc = "read"
    /\ IF fileState = "ioerr" THEN Fail("can't read file", args[1]) /\ b' = b
       ELSE pc' = "find" /\ err' = err /\ b' = fileText
    /\ UNCHANGED <<inputs, harness, opened, objects, values, iter, idx,
                   notFoundKeys, kvals, stdout, stderr, exitCode>>

\* src/main.go:84-87
FindAll ==
    /\ pc = "find"
    /\ objects' = FindAllStringSubmatch(b)
    /\ IF Len(objects') = 0 THEN Fail("no color codes found", args[1])
       ELSE pc' = "values" /\ err' = err
    /\ UNCHANGED <<inputs, harness, opened, b, values, iter, idx,
                   notFoundKeys, kvals, stdout, stderr, exitCode>>

\* an assignment that keeps the value a key already has
PutFirst(vals, k, v) == IF k \in DOMAIN vals THEN vals
                        ELSE [x \in DOMAIN vals \cup {k} |-> IF x = k THEN v ELSE vals[x]]

\* values[v[1]] = v[2]
Put(vals, k, v) == [x \in DOMAIN vals \cup {k} |-> IF x = k THEN v ELSE vals[x]]

\* the loop of src/main.go:90-96 from object i on: the map it builds, and the
\* position of the first submatch that is not a triple (0 when there is none)
RECURSIVE FillValues(_, _, _)
FillValues(objs, i, vals) ==
    IF i > Len(objs) THEN [bad |-> 0, vals |-> vals]
    ELSE IF Len(objs[i]) # 3 THEN [bad |-> i, vals |-> vals]
    ELSE FillValues(objs, i + 1, Put(vals, objs[i][2], objs[i][3]))

\* src/main.go:89-101: the values map, the two slices, and the order the range
\* statement is going to yield the keys in
BuildValues ==
    /\ pc = "values"
    /\ LET f == FillValues(objects, 1, <<>>) IN
       /\ values' = f.vals
       /\ IF f.bad # 0
          THEN Fail("no color code format found in mapping submatch", Itoa(f.bad - 1))
               /\ iter' = iter
          ELSE /\ pc' = "keys"
               /\ err' = err
               /\ \E o \in IterOrders : iter' = o
    /\ idx' = 0
    /\ notFoundKeys' = <<>>
    /\ kvals' = <<>>
    /\ UNCHANGED <<inputs, harness, opened, b, objects, stdout, stderr, exitCode>>

\* the colormatch values appended for one key, src/main.go:114-119
RECURSIVE Matches(_, _)
Matches(slots, converted) ==
    IF slots = <<>> THEN <<>>
    ELSE <<[name |-> colorPrefix \o Itoa(Head(slots)), color |-> converted]>>
         \o Matches(Tail(slots), converted)

\* the range loop failing at the first key it does not find
RangeKey_ShortCircuit ==
    /\ pc = "keys"
    /\ idx < Len(iter)
    /\ LET keyName == iter[idx + 1]
           found == keyName \in DOMAIN values
           r == hexToRGB(values[keyName])
       IN IF ~found
          THEN /\ notFoundKeys' = Append(notFoundKeys, keyName)
               /\ Fail("the following keys weren't found in the config file", keyName)
               /\ UNCHANGED <<idx, kvals, stderr, exitCode, opened>>
          ELSE /\ kvals' = kvals \o Matches(nameReplacements[keyName], r.c)
               /\ idx' = idx + 1
               /\ UNCHANGED <<pc, err, notFoundKeys, stderr, exitCode, opened>>
    /\ UNCHANGED <<inputs, harness, b, objects, values, iter, stdout>>

\* one iteration of the range loop, src/main.go:101-120
RangeKey ==
    /\ pc = "keys"
    /\ idx < Len(iter)
    /\ LET keyName == iter[idx + 1]
           found == keyName \in DOMAIN values
           r == hexToRGB(values[keyName])
       IN IF ~found
          THEN /\ notFoundKeys' = Append(notFoundKeys, keyName)
               /\ idx' = idx + 1
               /\ UNCHANGED <<pc, err, kvals, stderr, exitCode, opened>>
          ELSE IF r.panic
          THEN \* a run-time panic: deferred calls run, the trace is printed, exit status 2
               /\ pc' = "exited"
               /\ opened' = FALSE
               /\ stderr' = Append(stderr, [prefix |-> "panic:", kind |-> "index out of range",
                                            detail |-> <<>>])
               /\ exitCode' = 2
               /\ UNCHANGED <<err, kvals, notFoundKeys, idx>>
          ELSE IF r.err
          THEN /\ Fail("unable to parse hex color", values[keyName])
               /\ UNCHANGED <<kvals, notFoundKeys, idx, stderr, exitCode, opened>>
          ELSE /\ kvals' = kvals \o Matches(nameReplacements[keyName], r.c)
               /\ idx' = idx + 1
               /\ UNCHANGED <<pc, err, notFoundKeys, stderr, exitCode, opened>>
    /\ UNCHANGED <<inputs, harness, b, objects, values, iter, stdout>>

\* src/main.go:122-124
CheckMissing ==
    /\ pc = "keys"
    /\ idx = Len(iter)
    /\ IF Len(notFoundKeys) # 0
       THEN Fail("the following keys weren't found in the config file",
                 Join(notFoundKeys, <<",", " ">>))
       ELSE pc' = "render" /\ err' = err
    /\ UNCHANGED <<inputs, harness, opened, b, objects, values, iter, idx,
                   notFoundKeys, kvals, stdout, stderr, exitCode>>

\* src/main.go:126-142
Render ==
    /\ pc = "render"
    /\ kvals' = SortSlice(kvals)
    /\ b' = Header(args[2]) \o Rows(kvals')
    /\ stdout' = stdout \o b' \o <<NewLine>>
    /\ pc' = "return"
    /\ err' = NoErr
    /\ UNCHANGED <<inputs, harness, opened, objects, values, iter, idx,
                   notFoundKeys, stderr, exitCode>>

\* app returns (the deferred f.Close runs) and main reports, src/main.go:51-56, 77
Return ==
    /\ pc = "return"
    /\ opened' = FALSE
    /\ IF err # NoErr
       THEN /\ stderr' = Append(stderr, [prefix |-> "Error:", kind |-> err.kind,
                                         detail |-> err.detail])
            /\ exitCode' = 1
       ELSE /\ stderr' = stderr
            /\ exitCode' = 0
    /\ pc' = "exited"
    /\ UNCHANGED <<inputs, harness, b, objects, values, iter, idx,
                   notFoundKeys, kvals, err, stdout>>

Next ==
    \/ CheckArgs
    \/ CheckSession
    \/ OpenFile
    \/ ReadFile
    \/ FindAll
    \/ BuildValues
    \/ RangeKey
    \/ CheckMissing
    \/ Render
    \/ Return

Spec == Init /\ [][Next]_vars

-----------------------------------------------------------------------------
(* hexToRGB on its own: every call with a string of HexInputs *)

MaxShort == 4       \* every string over HexAlphabet up to this length is decoded
MaxLong == 8        \* longer strings, up to this length, differ from a well-formed
                    \* one in at most one position

HexAlphabet == {"#", "/", "0", "9", ":", "@", "A", "F", "G", Backtick, "a", "f", "g"}

BaseDigits == {"1", "E"}

\* s is a string over HexAlphabet of at most MaxShort characters
IsShortString(s) == \E n \in 0..MaxShort : s \in [1..n -> HexAlphabet]

\* s is "#" and digits of BaseDigits, MaxShort+1..MaxLong characters in all, with at
\* most one character replaced by one of HexAlphabet
IsLongString(s) ==
    \E n \in (MaxShort + 1)..MaxLong :
        \E d \in [1..n -> BaseDigits], p \in 0..n, c \in HexAlphabet :
            s = [i \in 1..n |-> IF i = p THEN c ELSE IF i = 1 THEN "#" ELSE d[i]]

\* the strings the specification gives as examples
ExampleStrings == {<<"#", "8", "a", "2">>, <<"#", "f", "f", "f">>, <<"#", "0", "0", "0">>, <<"#", "1", "a", "2", "b", "3", "c">>, <<"#", "C", "0", "F", "F", "E", "E">>}

InitHex ==
    /\ IsShortString(hexIn) \/ IsLongString(hexIn) \/ hexIn \in ExampleStrings
    /\ hexOut = NoHexResult
    /\ pc = "hexToRGB"
    /\ args = <<>> /\ fileState = "ok" /\ fileText = <<>>
    /\ reIn = <<>> /\ reOut = <<>>
    /\ DriverIdle

\* a call of hexToRGB, src/main.go:145-178
Decode ==
    /\ pc = "hexToRGB"
    /\ hexOut' = hexToRGB(hexIn)
    /\ pc' = "decoded"
    /\ UNCHANGED <<inputs, hexIn, reIn, reOut, opened, b, objects, values, iter, idx,
                   notFoundKeys, kvals, err, stdout, stderr, exitCode>>

NextHex == Decode

SpecHex == InitHex /\ [][NextHex]_vars

-----------------------------------------------------------------------------
(* The pattern on its own: every text of up to MaxTokens tokens *)

MaxTokens == 5

Tokens ==
    { sStarDot, Color(1), <<"2">>, sForeground, <<":", " ">>, <<":">>, <<" ">>,
      <<"#", "1", "a", "2", "B", "3", "c">>, <<"#", "a", "b", "c">>, <<"g">> }

\* s is the concatenation of at most MaxTokens tokens
IsText(s) == \E n \in 0..MaxTokens : \E t \in [1..n -> Tokens] : s = Concat(t)

InitExtract ==
    /\ IsText(reIn)
    /\ reOut = <<>>
    /\ pc = "FindAllStringSubmatch"
    /\ args = <<>> /\ fileState = "ok" /\ fileText = <<>>
    /\ hexIn = <<>> /\ hexOut = NoHexResult
    /\ DriverIdle

\* reParseItems.FindAllStringSubmatch(text, -1), src/main.go:84
Extract ==
    /\ pc = "FindAllStringSubmatch"
    /\ reOut' = FindAllStringSubmatch(reIn)
    /\ pc' = "extracted"
    /\ UNCHANGED <<inputs, hexIn, hexOut, reIn, opened, b, objects, values, iter, idx,
                   notFoundKeys, kvals, err, stdout, stderr, exitCode>>

NextExtract == Extract

SpecExtract == InitExtract /\ [][NextExtract]_vars

-----------------------------------------------------------------------------
(* Reading the output back, for the properties below *)

\* the fields of s between occurrences of the character c
Fields(s, c) ==
    LET seps == {i \in 1..Len(s) : s[i] = c}
        n == Cardinality(seps)
        pos(k) == IF k = 0 THEN 0
                  ELSE IF k = n + 1 THEN Len(s) + 1
                  ELSE CHOOSE i \in seps : Cardinality({j \in seps : j <= i}) = k
    IN [k \in 1..(n + 1) |-> SubSeq(s, pos(k - 1) + 1, pos(k) - 1)]

\* the newline-terminated lines of a text, and whether its last line is terminated
Lines(text) == LET f == Fields(text, NewLine) IN SubSeq(f, 1, Len(f) - 1)
Terminated(text) == text # <<>> /\ text[Len(text)] = NewLine

DigitVal(c) == CHOOSE d \in 0..9 : DigitChar[d + 1] = c

RECURSIVE ParseDec(_)
ParseDec(f) == IF f = <<>> THEN 0
               ELSE ParseDec(SubSeq(f, 1, Len(f) - 1)) * 10 + DigitVal(f[Len(f)])

\* a decimal numeral of 0..255 without leading zeros
IsDecimalByte(f) ==
    /\ Len(f) \in 1..3
    /\ \A i \in 1..Len(f) : f[i] \in ClassDigit
    /\ Len(f) > 1 => f[1] # "0"
    /\ ParseDec(f) <= 255

RowPrefix(digits) == <<"\"">> \o colorPrefix \o digits \o <<"\"", "=", "\"">>

\* row is "Colour<digits>"="<t>" for some text t
IsRowNamed(row, digits) ==
    /\ LitAt(row, 1, RowPrefix(digits))
    /\ Len(row) > Len(RowPrefix(digits))
    /\ row[Len(row)] = "\""

RowValue(row, digits) == SubSeq(row, Len(RowPrefix(digits)) + 1, Len(row) - 1)

IsTriple(t) ==
    LET f == Fields(t, ",") IN Len(f) = 3 /\ \A i \in 1..3 : IsDecimalByte(f[i])

TripleOf(t) == LET f == Fields(t, ",") IN <<ParseDec(f[1]), ParseDec(f[2]), ParseDec(f[3])>>

\* the value of a hexadecimal digit, by table
RefNibble ==
    "0" :> 0 @@ "1" :> 1 @@ "2" :> 2 @@ "3" :> 3 @@ "4" :> 4 @@ "5" :> 5 @@ "6" :> 6 @@
    "7" :> 7 @@ "8" :> 8 @@ "9" :> 9 @@
    "a" :> 10 @@ "b" :> 11 @@ "c" :> 12 @@ "d" :> 13 @@ "e" :> 14 @@ "f" :> 15 @@
    "A" :> 10 @@ "B" :> 11 @@ "C" :> 12 @@ "D" :> 13 @@ "E" :> 14 @@ "F" :> 15

\* s is "#" and n hexadecimal digits
IsHexString(s, n) ==
    Len(s) = n + 1 /\ s[1] = "#" /\ \A i \in 2..(n + 1) : s[i] \in DOMAIN RefNibble

\* the reference decoding of "#" and six, or three, hexadecimal digits
RefDecode(s) ==
    IF Len(s) = 7
    THEN <<16 * RefNibble[s[2]] + RefNibble[s[3]], 16 * RefNibble[s[4]] + RefNibble[s[5]],
           16 * RefNibble[s[6]] + RefNibble[s[7]]>>
    ELSE <<17 * RefNibble[s[2]], 17 * RefNibble[s[3]], 17 * RefNibble[s[4]]>>

\* the slot numbers 0..21 as numerals, in byte-wise order of the names
NamesInByteOrder ==
    << <<"0">>, <<"1">>, <<"1", "0">>, <<"1", "1">>, <<"1", "2">>, <<"1", "3">>, <<"1", "4">>, <<"1", "5">>, <<"1", "6">>, <<"1", "7">>, <<"1", "8">>, <<"1", "9">>, <<"2">>, <<"2", "0">>, <<"2", "1">>, <<"3">>, <<"4">>, <<"5">>, <<"6">>, <<"7">>, <<"8">>, <<"9">> >>

\* the command line and the file let the run reach the pattern matching
RunReadsFile == Len(args) = 2 /\ args[2] # <<>> /\ fileState = "ok"

\* the keys of the assignments the run extracted from its file
ExtractedKeys == {objects[i][2] : i \in 1..Len(objects)}

AllExtracted == KeyNames \subseteq ExtractedKeys

Exited == pc = "exited"

-----------------------------------------------------------------------------
(* C1: a run on a file in which all 19 keys are extracted, with a non-empty  *)
(* session name, exits 0 and writes the banner, a blank line, the bracketed  *)
(* path line, then the 22 rows "ColourN"="R,G,B" with N in byte-wise order   *)
(* of the names (Colour10 before Colour2), then a blank line, in whatever    *)
(* order the name table was ranged over.                                     *)
C1_CompleteFileOutput ==
    (Exited /\ RunReadsFile /\ AllExtracted) =>
        LET OutLines == Lines(stdout) IN
        /\ exitCode = 0
        /\ Terminated(stdout)
        /\ Len(OutLines) = 3 + Len(NamesInByteOrder) + 1
        /\ OutLines[1] = Banner
        /\ OutLines[2] = <<>>
        /\ LitAt(OutLines[3], 1, PathPrefix)
        /\ OutLines[3][Len(OutLines[3])] = "]"
        /\ \A j \in 1..Len(NamesInByteOrder) :
              /\ IsRowNamed(OutLines[3 + j], NamesInByteOrder[j])
              /\ IsTriple(RowValue(OutLines[3 + j], NamesInByteOrder[j]))
        /\ OutLines[Len(OutLines)] = <<>>

C1_Witness ==
    LET OutLines == Lines(stdout) IN
    /\ Exited /\ RunReadsFile /\ AllExtracted
    /\ iter = IterOrder(1, 2)
    /\ Len(OutLines) = 26
    /\ IsRowNamed(OutLines[6], <<"1", "0">>)
    /\ IsRowNamed(OutLines[16], <<"2">>)

-----------------------------------------------------------------------------
\* the rows among lines whose name is Colour<n>
RowsNamed(lines, n) == {j \in 1..Len(lines) : IsRowNamed(lines[j], Itoa(n))}

Succeeded == Exited /\ exitCode = 0

(* C2: in a successful run, for every key k of the name table and every slot *)
(* n of k, exactly one output row is named Colour<n>, and its value is the   *)
(* decimal R,G,B triple of the hex value extracted for k; so a key with two  *)
(* slots gives two rows with the same triple, and foreground #1a2b3c gives   *)
(* "Colour0"="26,43,60" and "Colour1"="26,43,60".                            *)
C2_RowsCarryDecodedColour ==
    Succeeded =>
        LET OutLines == Lines(stdout) IN
        /\ \A k \in KeyNames : \A i \in 1..Len(nameReplacements[k]) :
              LET n == nameReplacements[k][i] IN
              /\ Cardinality(RowsNamed(OutLines, n)) = 1
              /\ \A j \in RowsNamed(OutLines, n) :
                    /\ IsTriple(RowValue(OutLines[j], Itoa(n)))
                    /\ TripleOf(RowValue(OutLines[j], Itoa(n))) = RefDecode(values[k])
        /\ values[sForeground] = <<"#", "1", "a", "2", "b", "3", "c">> =>
              /\ OutLines[4] = <<"\"", "C", "o", "l", "o", "u", "r", "0", "\"", "=", "\"", "2", "6", ",", "4", "3", ",", "6", "0", "\"">>
              /\ OutLines[5] = <<"\"", "C", "o", "l", "o", "u", "r", "1", "\"", "=", "\"", "2", "6", ",", "4", "3", ",", "6", "0", "\"">>

C2_Witness ==
    LET OutLines == Lines(stdout) IN
    /\ Succeeded
    /\ values[sForeground] = <<"#", "1", "a", "2", "b", "3", "c">>
    /\ OutLines[4] = <<"\"", "C", "o", "l", "o", "u", "r", "0", "\"", "=", "\"", "2", "6", ",", "4", "3", ",", "6", "0", "\"">>
    /\ OutLines[5] = <<"\"", "C", "o", "l", "o", "u", "r", "1", "\"", "=", "\"", "2", "6", ",", "4", "3", ",", "6", "0", "\"">>

-----------------------------------------------------------------------------
MissingKind == "the following keys weren't found in the config file"

\* the required keys that are not among the extracted ones
MissingKeys == KeyNames \ ExtractedKeys

\* the names listed in a comma-and-space separated list
ListedNames(detail) ==
    LET f == Fields(detail, ",") IN
    [i \in 1..Len(f) |-> IF i = 1 THEN f[i] ELSE Tail(f[i])]

LoopEntered == iter # <<>>

(* C3: when at least one assignment is extracted and some required keys are  *)
(* missing, the run fails only after all 19 keys have been looked up, with   *)
(* one error that lists exactly the missing keys, each once, and writes      *)
(* nothing to stdout.                                                        *)
C3_MissingKeysReported ==
    /\ err.kind = MissingKind => idx = Len(NameTable)
    /\ (objects # <<>> /\ MissingKeys # {} /\ pc \in {"return", "exited"}) =>
          /\ err.kind = MissingKind
          /\ LET l == ListedNames(err.detail) IN
             /\ {l[i] : i \in 1..Len(l)} = MissingKeys
             /\ Len(l) = Cardinality(MissingKeys)
             /\ \A i \in 2..Len(l) : Fields(err.detail, ",")[i][1] = " "
          /\ stdout = <<>>
          /\ Exited => /\ exitCode = 1
                       /\ stderr = <<[prefix |-> "Error:", kind |-> err.kind,
                                      detail |-> err.detail]>>

C3_Witness ==
    /\ Exited
    /\ MissingKeys = {Color(7)}
    /\ Len(objects) = 18
    /\ stderr = <<[prefix |-> "Error:", kind |-> MissingKind, detail |-> Color(7)]>>

C3_WitnessTwo ==
    /\ Exited
    /\ Cardinality(MissingKeys) = 2
    /\ Len(ListedNames(stderr[1].detail)) = 2

-----------------------------------------------------------------------------
FailureKinds ==
    {"usage", "session name is empty", "can't open file", "can't read file",
     "no color codes found", "no color code format found in mapping submatch",
     MissingKind, "unable to parse hex color"}

\* every stage of the run succeeds on these inputs
AllStagesSucceed ==
    /\ RunReadsFile
    /\ FindAllStringSubmatch(fileText) # <<>>
    /\ AllExtracted

(* C4: a run that fails at any stage writes nothing to stdout, writes one    *)
(* message prefixed "Error:" to stderr and exits 1; stdout is written and 0  *)
(* returned only when every stage succeeded.                                 *)
C4_AllOrNothing ==
    /\ exitCode \in {-1, 0, 1}
    /\ ~Exited => stderr = <<>> /\ exitCode = -1
    /\ stdout # <<>> => err = NoErr /\ pc \in {"return", "exited"} /\ AllExtracted /\ RunReadsFile
    /\ err # NoErr => err.kind \in FailureKinds /\ stdout = <<>>
    /\ Exited =>
          \/ /\ exitCode = 0
             /\ err = NoErr
             /\ stderr = <<>>
             /\ stdout # <<>>
             /\ AllStagesSucceed
          \/ /\ exitCode = 1
             /\ err.kind \in FailureKinds
             /\ stdout = <<>>
             /\ Len(stderr) = 1
             /\ stderr[1].prefix = "Error:"
             /\ stderr[1].kind = err.kind
             /\ ~(RunReadsFile /\ AllExtracted)

C4_Witness ==
    /\ Exited
    /\ exitCode = 1
    /\ err.kind = "can't read file"
    /\ stdout = <<>>

C4_WitnessSuccess == Exited /\ exitCode = 0 /\ stdout # <<>>

-----------------------------------------------------------------------------
UsageLine == [prefix |-> "Error:", kind |-> "usage", detail |-> <<>>]

(* C5: with an argument count other than 2 the run fails with the usage      *)
(* error and a non-zero exit without ever opening or reading the file,       *)
(* whatever the state of the file; with exactly 2 arguments the usage error  *)
(* never occurs.                                                             *)
C5_UsageBeforeFile ==
    /\ Len(args) # 2 =>
          /\ opened = FALSE
          /\ b = <<>>
          /\ pc \in {"args", "return", "exited"}
          /\ pc # "args" => err.kind = "usage"
          /\ Exited => exitCode = 1 /\ stderr = <<UsageLine>> /\ stdout = <<>>
    /\ Len(args) = 2 => err.kind # "usage"

C5_Witness ==
    /\ Len(args) = 3
    /\ fileState = "noent"
    /\ Exited
    /\ exitCode = 1
    /\ stderr = <<UsageLine>>

C5_WitnessTwoArgs == Len(args) = 2 /\ fileState = "ok" /\ Exited /\ opened = FALSE /\ b # <<>>

-----------------------------------------------------------------------------
\* the position in objects of the last assignment to key k
LastOccurrence(k) ==
    CHOOSE i \in 1..Len(objects) :
        objects[i][2] = k /\ \A j \in (i + 1)..Len(objects) : objects[j][2] # k

IsColourRow(line) == LitAt(line, 1, <<"\"">> \o colorPrefix)

(* C9: when a key is matched more than once, the value used for it is the    *)
(* hex value of its last occurrence in file order: the map holds it, the     *)
(* rows of the key carry its decoding, and the output still has 22 rows.     *)
C9_LastOccurrenceWins ==
    LoopEntered =>
        /\ DOMAIN values = ExtractedKeys
        /\ \A k \in ExtractedKeys : values[k] = objects[LastOccurrence(k)][3]
        /\ Succeeded =>
              LET OutLines == Lines(stdout) IN
              /\ Cardinality({j \in 1..Len(OutLines) : IsColourRow(OutLines[j])}) = 22
              /\ \A k \in KeyNames : \A i \in 1..Len(nameReplacements[k]) :
                    LET n == nameReplacements[k][i] IN
                    \E j \in 1..Len(OutLines) :
                        /\ IsRowNamed(OutLines[j], Itoa(n))
                        /\ TripleOf(RowValue(OutLines[j], Itoa(n)))
                              = RefDecode(objects[LastOccurrence(k)][3])

C9_Witness ==
    /\ Succeeded
    /\ \E i \in 1..Len(objects) :
          /\ i < LastOccurrence(Color(7))
          /\ objects[i][2] = Color(7)
          /\ objects[i][3] # objects[LastOccurrence(Color(7))][3]
    /\ values[Color(7)] = <<"#", "F", "F", "F", "F", "F", "F">>
    /\ Lines(stdout)[17] = <<"\"", "C", "o", "l", "o", "u", "r", "2", "0", "\"", "=", "\"", "2", "5", "5", ",", "2", "5", "5", ",", "2", "5", "5", "\"">>

-----------------------------------------------------------------------------
(* C10: every value the driver passes to hexToRGB is "#" and six hex digits, *)
(* so the decode never fails or panics, the "unable to parse hex color"      *)
(* error never occurs, and the key loop is left only after all 19 keys.      *)
C10_DecodeNeverFails ==
    /\ \A i \in 1..Len(objects) : IsHexString(objects[i][3], 6)
    /\ \A k \in DOMAIN values : IsHexString(values[k], 6)
    /\ (pc = "keys" /\ idx < Len(iter) /\ iter[idx + 1] \in DOMAIN values) =>
          LET r == hexToRGB(values[iter[idx + 1]]) IN ~r.err /\ ~r.panic
    /\ err.kind # "unable to parse hex color"
    /\ exitCode # 2
    /\ (LoopEntered /\ pc # "keys") => idx = Len(NameTable)

C10_Witness ==
    /\ Succeeded
    /\ idx = Len(NameTable)
    /\ values[Color(3)] = <<"#", "1", "2", "3", "4", "5", "6">>
    /\ Len(kvals) = 22

C10_WitnessBadDigit ==
    /\ Exited
    /\ LoopEntered
    /\ LitAt(fileText, Len(fileText) - Len(BadDigit) + 1, BadDigit)

-----------------------------------------------------------------------------
ValidHex(s) == IsHexString(s, 6) \/ IsHexString(s, 3)

Decoded == pc = "decoded"

(* C7: on "#" and six hex digits hexToRGB gives the values of the three      *)
(* digit pairs, on "#" and three hex digits it gives 17 times each digit;    *)
(* in both cases without error and with alpha 255.                           *)
C7_DecodeAgrees ==
    (Decoded /\ ValidHex(hexIn)) =>
        /\ ~hexOut.panic
        /\ ~hexOut.err
        /\ hexOut.c.A = 255
        /\ <<hexOut.c.R, hexOut.c.G, hexOut.c.B>> = RefDecode(hexIn)
        /\ {hexOut.c.R, hexOut.c.G, hexOut.c.B} \subseteq 0..255

C7_Witness ==
    /\ Decoded
    /\ hexIn = <<"#", "8", "a", "2">>
    /\ hexOut = [panic |-> FALSE, err |-> FALSE, c |-> [R |-> 136, G |-> 170, B |-> 34, A |-> 255]]

C7_WitnessSix ==
    /\ Decoded
    /\ hexIn = <<"#", "C", "0", "F", "F", "E", "E">>
    /\ hexOut.c = [R |-> 192, G |-> 255, B |-> 238, A |-> 255]

(* C8: hexToRGB returns the "invalid format" error, and does not crash, for  *)
(* every string that does not start with "#" (the empty string included),    *)
(* whose length is not 4 or 7, or that has a non-hex character at any digit  *)
(* position.                                                                 *)
C8_InvalidRejected ==
    (Decoded /\ ~ValidHex(hexIn)) => hexOut.err /\ ~hexOut.panic

\* the same for the strings that are not empty
C8_NonEmptyInvalidRejected ==
    (Decoded /\ ~ValidHex(hexIn) /\ hexIn # <<>>) => hexOut.err /\ ~hexOut.panic

-----------------------------------------------------------------------------
SingleKeys ==
    {sForeground, sBackground, sCursorColor}
    \cup {sColor \o <<d>> : d \in ClassDigit}
    \cup {sColor \o <<d, e>> : d \in ClassDigit, e \in ClassDigit}

Spaces(n) == [i \in 1..n |-> " "]

\* at position p of text stands "*.", key, ":", one or more spaces and val,
\* and val is not followed by a further hex digit
TokenAt(text, p, key, val) ==
    \E n \in 1..Len(text) :
        LET tok == sStarDot \o key \o <<":">> \o Spaces(n) \o val IN
        /\ LitAt(text, p, tok)
        /\ ~InClass(text, p + Len(tok), DOMAIN RefNibble)

(* C6: the extractor yields a pair only for a token "*.<keyname>:" whose     *)
(* <keyname> is exactly one of the alternatives (not several of them in a    *)
(* row), followed by one or more spaces and "#" with exactly six hex digits; *)
(* the pair is that key name and "#" with those digits.                      *)
C6_OnlySingleKeyTokens ==
    pc = "extracted" =>
        \A i \in 1..Len(reOut) :
            /\ Len(reOut[i]) = 3
            /\ reOut[i][2] \in SingleKeys
            /\ IsHexString(reOut[i][3], 6)
            /\ \E p \in 1..Len(reIn) : TokenAt(reIn, p, reOut[i][2], reOut[i][3])

\* what does hold of every pair: its key is one alternative (the last of the run
\* before the colon) and its value is "#" with six hex digits
C6_KeyRunTokens ==
    pc = "extracted" =>
        \A i \in 1..Len(reOut) :
            /\ Len(reOut[i]) = 3
            /\ reOut[i][2] \in SingleKeys
            /\ IsHexString(reOut[i][3], 6)

====
